---- MODULE Spec2Model ----
(***************************************************************************)
(* Raycasting renderer (iglooe/raycasting).                                *)
(*                                                                         *)
(* Four machines share this module:                                        *)
(*   Spec          castRay / renderScene / renderMinimap of src/index.ts,  *)
(*                 one action per loop iteration;                          *)
(*   SpecRenderScene  the loop body of renderScene for a player looking    *)
(*                 along a grid axis;                                      *)
(*   SpecFrame     the key listeners and the requestAnimationFrame loop    *)
(*                 of the compiled listing in src/readme.md;               *)
(*   SpecKeydownTs the keydown listener of src/index.ts.                   *)
(*                                                                         *)
(* JavaScript numbers are modelled as exact rationals <<n, d>> in lowest   *)
(* terms with d > 0, so rounding error of IEEE doubles is not modelled.    *)
(* Angles are rationals in units of pi.                                    *)
(***************************************************************************)
EXTENDS Integers, Sequences, FiniteSets, TLC

VARIABLES
  scene,          \* castRay/renderScene/renderMinimap argument `scene`
  start,          \* castRay local `start` (the origin of the ray)
  towards,        \* castRay argument p2 as passed by the caller
  p1, p2,         \* castRay's running pair of points
  pc,             \* position in renderGame: cast, returned, minimap, done
  rd,             \* the scene[row][col] read made by the last step, or NoRead
  cell,           \* the value that read produced
  my, mx,         \* renderMinimap loop counters y and x
  movingForward, movingBackward, turningLeft, turningRight,
  prevTimestamp,  \* milliseconds
  position,       \* player.position
  direction,      \* player.direction, in units of pi
  rafQueue,       \* callbacks handed to window.requestAnimationFrame
  now,            \* the frame driver's clock, milliseconds
  fpc,            \* position inside the running frame callback
  timestamp,      \* argument of the running frame callback
  deltaTime,      \* frame local deltaTime of the running/last frame callback
  lastEvent,      \* per key: the last non-repeat event delivered
  nFrames, nKeys, \* counters that bound the exploration
  column,         \* renderScene loop counter x
  strips,         \* the fillRect calls of renderScene, in order
  ctx,            \* the drawing state of the 2d context
  saved,          \* the stack of drawing states kept by ctx.save()
  atCall          \* history: <<ctx, Len(saved)>> when renderMinimap was called

castVars == <<scene, start, towards, p1, p2, pc, rd, cell, my, mx>>
frameVars == <<movingForward, movingBackward, turningLeft, turningRight,
               prevTimestamp, rafQueue, now, fpc, timestamp, deltaTime,
               lastEvent, nFrames>>
playerVars == <<position, direction>>
drawVars == <<column, strips, ctx, saved, atCall>>
vars == <<castVars, frameVars, playerVars, nKeys, drawVars>>

----------------------------------------------------------------------------
(* Bounds of the exploration *)

Den == 2          \* ray inputs lie on the grid of multiples of 1/Den
MaxFrames == 2    \* frame callbacks explored per behaviour
MaxKeys == 4      \* keydown events explored per behaviour of SpecKeydownTs

----------------------------------------------------------------------------
(* JavaScript number arithmetic on exact rationals *)

Abs(n) == IF n < 0 THEN -n ELSE n

RECURSIVE GCD(_, _)
GCD(a, b) == IF b = 0 THEN a ELSE GCD(b, a % b)

Rat(n, d) ==
  LET g == GCD(Abs(n), Abs(d))
      s == IF d < 0 THEN -1 ELSE 1
  IN  <<(s * n) \div g, (s * d) \div g>>

Num(n) == <<n, 1>>

Plus(a, b) ==
  LET g == GCD(a[2], b[2])
  IN  Rat(a[1] * (b[2] \div g) + b[1] * (a[2] \div g), a[2] * (b[2] \div g))

Neg(a) == <<-a[1], a[2]>>

Minus(a, b) == Plus(a, Neg(b))

Times(a, b) ==
  LET g1 == GCD(Abs(a[1]), b[2])
      g2 == GCD(Abs(b[1]), a[2])
  IN  Rat((a[1] \div g1) * (b[1] \div g2), (a[2] \div g2) * (b[2] \div g1))

\* a / b for b # 0
Over(a, b) == Times(a, IF b[1] < 0 THEN <<-b[2], -b[1]>> ELSE <<b[2], b[1]>>)

\* a < b: the integer parts decide, and the fractional parts when they agree
Less(a, b) ==
  LET qa == a[1] \div a[2]
      qb == b[1] \div b[2]
      g == GCD(a[2], b[2])
  IN  \/ qa < qb
      \/ /\ qa = qb
         /\ (a[1] - qa * a[2]) * (b[2] \div g) < (b[1] - qb * b[2]) * (a[2] \div g)

Leq(a, b) == a = b \/ Less(a, b)

MathMax(a, b) == IF Less(a, b) THEN b ELSE a

MathSign(a) == IF a[1] > 0 THEN 1 ELSE IF a[1] < 0 THEN -1 ELSE 0

MathFloorInt(a) == a[1] \div a[2]

MathCeilInt(a) == -((-a[1]) \div a[2])

MathFloor(a) == Num(MathFloorInt(a))

MathCeil(a) == Num(MathCeilInt(a))

IsInteger(a) == a[2] = 1

\* x + s * e for s in {-1, 0, 1}, computed on the fractional part of x so
\* that the numerators stay small
Nudge(x, s, e) ==
  LET q == MathFloorInt(x)
      f == <<x[1] - q * x[2], x[2]>>
      g == IF s > 0 THEN Plus(f, e) ELSE IF s < 0 THEN Minus(f, e) ELSE f
  IN  Plus(Num(q), g)

----------------------------------------------------------------------------
(* global constants *)

EPSILON == <<1, 1000000>>
NEAR_CLIPPING_PLANE == 1

FAR_CLIPPING_PLANE == 10

\* Math.PI * 0.5, in units of pi
FOV == <<1, 2>>

SCREEN_WIDTH == 200

\* game.width = 16 * factor, game.height = 9 * factor, factor = 50
canvasWidth == 16 * 50

canvasHeight == 9 * 50
PLAYER_SPEED == 2
\* Math.PI * .65 and Math.PI * 0.1, in units of pi
TurnRate == Rat(13, 20)
TurnStep == Rat(1, 10)
PLAYER_STEP_LEN == Rat(1, 2)
\* Number.MIN_VALUE is 2^-1074, the smallest positive double; it stands here
\* as a positive rational below every other positive value of the model
NumberMIN_VALUE == <<1, 1073741824>>

----------------------------------------------------------------------------
(* class Vector2D *)

Vector2D(x, y) == [x |-> x, y |-> y]

subtract(this, that) == Vector2D(Minus(this.x, that.x), Minus(this.y, that.y))

sqrLength(this) == Plus(Times(this.x, this.x), Times(this.y, this.y))

\* distanceTo is sqrt(sqrLength); only comparisons of distances are used, and
\* sqrt is monotone, so the square is compared instead
sqrDistanceTo(this, that) == sqrLength(subtract(that, this))

scaleBy(this, value) == Vector2D(Times(this.x, value), Times(this.y, value))

(* The player moves along Vector2D.fromAngle(direction), whose components   *)
(* are cosines and sines.  A position is kept as c + SUM u[a] * fromAngle(a) *)
(* with c an exact vector and u a map from angles to exact coefficients     *)
(* (only the angles with a non-zero coefficient).                            *)

NoAngles == [a \in {} |-> Num(0)]

Along(f) == [a \in {b \in DOMAIN f : f[b] # Num(0)} |-> f[a]]

zero == [c |-> Vector2D(Num(0), Num(0)), u |-> NoAngles]

fromAngle(angle) == [c |-> Vector2D(Num(0), Num(0)), u |-> [a \in {angle} |-> Num(1)]]

scale(this, value) ==
  [c |-> Vector2D(Times(this.c.x, value), Times(this.c.y, value)),
   u |-> Along([a \in DOMAIN this.u |-> Times(this.u[a], value)])]

add(this, that) ==
  [c |-> Vector2D(Plus(this.c.x, that.c.x), Plus(this.c.y, that.c.y)),
   u |-> Along([a \in DOMAIN this.u \cup DOMAIN that.u |->
                 Plus(IF a \in DOMAIN this.u THEN this.u[a] ELSE Num(0),
                      IF a \in DOMAIN that.u THEN that.u[a] ELSE Num(0))])]

subtractAlong(this, that) == add(this, scale(that, Num(-1)))

----------------------------------------------------------------------------
(* helper functions for raycasting calculations *)

\* snapToNeighbor without the epsilon bias
snapToNeighborNoEpsilon(x, dx) ==
  IF MathSign(dx) > 0 THEN MathCeil(x)
  ELSE IF MathSign(dx) < 0 THEN MathFloor(x)
  ELSE x

snapToNeighbor(x, dx) ==
  IF MathSign(dx) > 0 THEN MathCeil(Nudge(x, MathSign(dx), EPSILON))
  ELSE IF MathSign(dx) < 0 THEN MathFloor(Nudge(x, MathSign(dx), EPSILON))
  ELSE x

\* hittingCell without the sign-biased nudge
hittingCellNoNudge(q1, q2) == Vector2D(MathFloor(q2.x), MathFloor(q2.y))

hittingCell(q1, q2) ==
  LET delta == subtract(q2, q1)
  IN  Vector2D(MathFloor(Nudge(q2.x, MathSign(delta.x), EPSILON)),
               MathFloor(Nudge(q2.y, MathSign(delta.y), EPSILON)))

\* rayStep keeping the farther of its two candidates
rayStepFarther(q1, q2) ==
  LET delta == subtract(q2, q1)
  IN  IF delta.x # Num(0)
      THEN LET k == Over(delta.y, delta.x)
               c == Minus(q1.y, Times(k, q1.x))
               xa == snapToNeighbor(q2.x, delta.x)
               pa == Vector2D(xa, Plus(Times(xa, k), c))
           IN  IF k # Num(0)
               THEN LET yb == snapToNeighbor(q2.y, delta.y)
                        p3temp == Vector2D(Over(Minus(yb, c), k), yb)
                    IN  IF Less(sqrDistanceTo(q2, pa), sqrDistanceTo(q2, p3temp))
                        THEN p3temp ELSE pa
               ELSE pa
      ELSE Vector2D(q2.x, snapToNeighbor(q2.y, delta.y))

rayStep(q1, q2) ==
  LET delta == subtract(q2, q1)
  IN  IF delta.x # Num(0)
      THEN LET k == Over(delta.y, delta.x)
               c == Minus(q1.y, Times(k, q1.x))
               xa == snapToNeighbor(q2.x, delta.x)
               pa == Vector2D(xa, Plus(Times(xa, k), c))
           IN  IF k # Num(0)
               THEN LET yb == snapToNeighbor(q2.y, delta.y)
                        p3temp == Vector2D(Over(Minus(yb, c), k), yb)
                    IN  IF Less(sqrDistanceTo(q2, p3temp), sqrDistanceTo(q2, pa))
                        THEN p3temp ELSE pa
               ELSE pa
      ELSE Vector2D(q2.x, snapToNeighbor(q2.y, delta.y))

RECURSIVE MaxRowLength(_, _)
MaxRowLength(sc, x) ==
  IF sc = <<>> THEN x
  ELSE MaxRowLength(Tail(sc), MathMax(x, Num(Len(Head(sc)))))

sceneSize(sc) == Vector2D(MaxRowLength(sc, NumberMIN_VALUE), Num(Len(sc)))

insideScene(sc, p) ==
  LET size == sceneSize(sc)
  IN  /\ Leq(Num(0), p.x) /\ Less(p.x, size.x)
      /\ Leq(Num(0), p.y) /\ Less(p.y, size.y)

\* scene[y][x] for integers y, x: an index past the end of an array yields
\* undefined, and indexing undefined throws
SceneAt(sc, y, x) ==
  IF y < 0 \/ y >= Len(sc) THEN "TypeError"
  ELSE IF x < 0 \/ x >= Len(sc[y + 1]) THEN "undefined"
  ELSE sc[y + 1][x + 1]

NoRead == [row |-> -1, col |-> -1, by |-> "none"]

\* the read scene[c.y][c.x] made by function `by`
Read(c, by) == [row |-> MathFloorInt(c.y), col |-> MathFloorInt(c.x), by |-> by]

\* the while condition of castRay
WithinFarClip ==
  Less(sqrDistanceTo(start, p1), Num(FAR_CLIPPING_PLANE * FAR_CLIPPING_PLANE))

\* the break condition of castRay, read only when the cell is inside
HitsWall(sc, c) ==
  insideScene(sc, c) /\ SceneAt(sc, MathFloorInt(c.y), MathFloorInt(c.x)) # "null"

----------------------------------------------------------------------------
(* the scene and the player of the page, and the inputs explored *)

builtinScene ==
  << <<"null", "null", "cyan", "purple", "null", "null", "null", "null">>,
     <<"null", "null", "null", "yellow", "null", "null", "null", "null">>,
     <<"null", "red", "green", "blue", "null", "null", "null", "null">>,
     <<"null", "null", "null", "null", "null", "null", "null", "null">>,
     <<"null", "null", "null", "null", "null", "null", "null", "null">>,
     <<"null", "null", "null", "null", "null", "null", "null", "null">>,
     <<"null", "null", "null", "null", "null", "null", "null", "null">> >>

\* new Player(sceneSize(scene).multiply(new Vector2D(0.63, 0.63)), ...)
playerPosition ==
  Vector2D(Times(sceneSize(builtinScene).x, Rat(63, 100)),
           Times(sceneSize(builtinScene).y, Rat(63, 100)))

\* ... Math.PI * 1.25, in units of pi
playerDirection == Rat(5, 4)

\* rows of unequal length, a scene whose only row is empty, and no rows
raggedScene ==
  << <<"null", "null", "null", "red">>, <<"null">>, <<"null", "null">> >>

\* one row with a wall right of an empty cell
nearLineScene == << <<"null", "red">> >>

Scenes == {builtinScene, raggedScene, nearLineScene, << <<>> >>, <<>>}

Origins ==
  {playerPosition, Vector2D(Rat(1, 2), Rat(1, 2)), Vector2D(Rat(5, 2), Rat(3, 2))}

\* towards - origin: the grid points of [-1, 1] x [-1, 1], the zero ray included
GridDeltas ==
  {Vector2D(Rat(i, Den), Rat(j, Den)) : i \in -Den..Den, j \in -Den..Den}

\* points along the view direction 5 pi / 4 of the player, the last two at the
\* near clipping planes 1 and 0.25 to three decimals (cos = sin = -0.7071...)
ViewDeltas ==
  {Vector2D(Rat(-t, 1000), Rat(-t, 1000)) : t \in {100, 500, 1000, 707, 177}}

AlongView(q1, q2) ==
  LET d == subtract(q2, q1) IN d.x = d.y /\ MathSign(d.x) < 0

translate(p, d) == Vector2D(Plus(p.x, d.x), Plus(p.y, d.y))

\* a point half of EPSILON before the grid line x = 1, aimed at from the centre
\* of the empty cell of nearLineScene
nearLineOrigin == Vector2D(Rat(1, 2), Rat(1, 2))

nearLineTowards == Vector2D(<<1999999, 2000000>>, Rat(1, 2))

----------------------------------------------------------------------------
(* Initial values of the page's state: the flags, the player, the queue of  *)
(* animation-frame callbacks holding the seeding callback                   *)

Keys == {"KeyW", "KeyS", "KeyA", "KeyD"}

InitPage ==
  /\ movingForward = FALSE /\ movingBackward = FALSE
  /\ turningLeft = FALSE /\ turningRight = FALSE
  /\ prevTimestamp = 0
  /\ rafQueue = <<"seed">>
  /\ now = 0 /\ fpc = "idle" /\ timestamp = 0 /\ deltaTime = Num(0)
  /\ lastEvent = [k \in Keys |-> "none"]
  /\ nFrames = 0

\* the drawing state of a 2d context as canvas.getContext("2d") hands it out:
\* identity transform <<a, b, c, d, e, f>>, black styles, line width 1
defaultContext ==
  [transform |-> <<Num(1), Num(0), Num(0), Num(1), Num(0), Num(0)>>,
   fillStyle |-> "#000000", strokeStyle |-> "#000000", lineWidth |-> Num(1)]

\* the drawing state once renderGame has set ctx.fillStyle = "#181818"
backgroundContext == [defaultContext EXCEPT !.fillStyle = "#181818"]

InitDraw ==
  /\ column = 0 /\ strips = <<>>
  /\ ctx = defaultContext
  /\ saved = <<>> /\ atCall = <<>>

\* ctx.translate(x, y) and ctx.scale(x, y) on the transform; a call with an
\* argument that is not a finite number does nothing
NaN == <<0, 0>>

Infinity == <<1, 0>>

IsFinite(a) == a[2] # 0

contextTranslate(t, x, y) ==
  IF ~(IsFinite(x) /\ IsFinite(y)) THEN t
  ELSE <<t[1], t[2], t[3], t[4],
         Plus(t[5], Plus(Times(t[1], x), Times(t[3], y))),
         Plus(t[6], Plus(Times(t[2], x), Times(t[4], y)))>>

contextScale(t, x, y) ==
  IF ~(IsFinite(x) /\ IsFinite(y)) THEN t
  ELSE <<Times(t[1], x), Times(t[2], x), Times(t[3], y), Times(t[4], y),
         t[5], t[6]>>

\* a / b of two numbers, b possibly 0
Quotient(a, b) ==
  IF b # Num(0) THEN Over(a, b) ELSE IF a = Num(0) THEN NaN ELSE Infinity

InitPlayer ==
  /\ position = [c |-> playerPosition, u |-> NoAngles]
  /\ direction = playerDirection

----------------------------------------------------------------------------
(* Spec: renderGame for one ray: castRay, the re-check of renderScene, and  *)
(* the cell loop of renderMinimap                                           *)

Init ==
  /\ scene \in Scenes
  /\ start \in Origins
  /\ towards \in {translate(start, d) : d \in GridDeltas \cup ViewDeltas}
  /\ p1 = start /\ p2 = towards
  /\ pc = "cast" /\ rd = NoRead /\ cell = "none" /\ my = 0 /\ mx = 0
  /\ InitPage /\ InitPlayer /\ nKeys = 0
  /\ column = 0 /\ strips = <<>>
  /\ ctx = backgroundContext /\ saved = <<>> /\ atCall = <<>>

PageUnchanged == UNCHANGED <<frameVars, playerVars, nKeys>>

\* castRay: the loop condition fails
CastRayFarClip ==
  /\ pc = "cast" /\ ~WithinFarClip
  /\ pc' = "returned" /\ rd' = NoRead /\ cell' = "none"
  /\ UNCHANGED <<scene, start, towards, p1, p2, my, mx>>
  /\ PageUnchanged /\ UNCHANGED drawVars

\* castRay: the cell of p2 is inside and not null: break
CastRayBreak ==
  LET c == hittingCell(p1, p2) IN
  /\ pc = "cast" /\ WithinFarClip /\ HitsWall(scene, c)
  /\ rd' = Read(c, "castRay")
  /\ cell' = SceneAt(scene, MathFloorInt(c.y), MathFloorInt(c.x))
  /\ pc' = "returned"
  /\ UNCHANGED <<scene, start, towards, p1, p2, my, mx>>
  /\ PageUnchanged /\ UNCHANGED drawVars

\* castRay: no break: p1 = p2; p2 = rayStep(p1, p2)
CastRayStep ==
  LET c == hittingCell(p1, p2) IN
  /\ pc = "cast" /\ WithinFarClip /\ ~HitsWall(scene, c)
  /\ IF insideScene(scene, c)
     THEN /\ rd' = Read(c, "castRay")
          /\ cell' = SceneAt(scene, MathFloorInt(c.y), MathFloorInt(c.x))
     ELSE rd' = NoRead /\ cell' = "none"
  /\ p1' = p2
  /\ p2' = rayStep(p1, p2)
  /\ UNCHANGED <<scene, start, towards, pc, my, mx>>
  /\ PageUnchanged /\ UNCHANGED drawVars

\* ctx.fillStyle after `ctx.fillStyle = color` inside `if (color !== null)`:
\* a value that is not a colour string (undefined) is ignored by the context
FillStyleSet(style, color) ==
  IF color \in {"null", "none", "undefined", "TypeError"} THEN style ELSE color

\* renderScene: the cell of the returned point is looked up again and, when
\* it is not null, becomes the fill style of the strip
RenderSceneColumn ==
  LET c == hittingCell(start, p2) IN
  /\ pc = "returned"
  /\ IF insideScene(scene, c)
     THEN /\ rd' = Read(c, "renderScene")
          /\ cell' = SceneAt(scene, MathFloorInt(c.y), MathFloorInt(c.x))
     ELSE rd' = NoRead /\ cell' = "none"
  /\ ctx' = [ctx EXCEPT !.fillStyle = FillStyleSet(@, cell')]
  /\ pc' = "renderMinimap" /\ my' = 0 /\ mx' = 0
  /\ UNCHANGED <<scene, start, towards, p1, p2, column, strips, saved, atCall>>
  /\ PageUnchanged

\* renderGame calls renderMinimap(ctx, player, minimapPosition, minimapSize,
\* scene); renderMinimap up to its cell loop
RenderMinimapBegin ==
  LET minimapPosition == scaleBy(Vector2D(Num(canvasWidth), Num(canvasHeight)), Rat(3, 100))
      cellSize == Times(Num(canvasWidth), Rat(3, 100))
      size == scaleBy(sceneSize(scene), cellSize)
      gridSize == sceneSize(scene)
      moved == contextTranslate(ctx.transform, minimapPosition.x, minimapPosition.y)
  IN
  /\ pc = "renderMinimap"
  /\ atCall' = <<ctx, Len(saved)>>
  /\ saved' = <<ctx>> \o saved
  /\ ctx' = [transform |-> contextScale(moved, Quotient(size.x, gridSize.x),
                                         Quotient(size.y, gridSize.y)),
             fillStyle |-> "#181818", strokeStyle |-> "#303030",
             lineWidth |-> Rat(1, 10)]
  /\ pc' = "minimap" /\ my' = 0 /\ mx' = 0
  /\ UNCHANGED <<scene, start, towards, p1, p2, rd, cell, column, strips>>
  /\ PageUnchanged

\* renderMinimap: one pass of the inner loop body, the end of a row, or the
\* end of the outer loop with the rest of the function
RenderMinimapCell ==
  LET gridSize == sceneSize(scene) IN
  /\ pc = "minimap" /\ Less(Num(my), gridSize.y) /\ Less(Num(mx), gridSize.x)
  /\ rd' = [row |-> my, col |-> mx, by |-> "renderMinimap"]
  /\ cell' = SceneAt(scene, my, mx)
  /\ ctx' = [ctx EXCEPT !.fillStyle = FillStyleSet(@, cell')]
  /\ mx' = mx + 1
  /\ UNCHANGED <<scene, start, towards, p1, p2, pc, my>>
  /\ UNCHANGED <<column, strips, saved, atCall>>
  /\ PageUnchanged

RenderMinimapRowEnd ==
  LET gridSize == sceneSize(scene) IN
  /\ pc = "minimap" /\ Less(Num(my), gridSize.y) /\ ~Less(Num(mx), gridSize.x)
  /\ my' = my + 1 /\ mx' = 0
  /\ rd' = NoRead /\ cell' = "none"
  /\ UNCHANGED <<scene, start, towards, p1, p2, pc>>
  /\ PageUnchanged /\ UNCHANGED drawVars

\* renderMinimap from the end of the cell loop on, without ctx.restore()
RenderMinimapEndNoRestore ==
  LET gridSize == sceneSize(scene) IN
  /\ pc = "minimap" /\ ~Less(Num(my), gridSize.y)
  /\ pc' = "done" /\ rd' = NoRead /\ cell' = "none"
  /\ ctx' = [ctx EXCEPT !.fillStyle = "#ea250c", !.strokeStyle = "#ea250c"]
  /\ UNCHANGED <<scene, start, towards, p1, p2, my, mx>>
  /\ UNCHANGED <<column, strips, saved, atCall>>
  /\ PageUnchanged

\* the grid lines, the player in "#ea250c", the FOV triangle, ctx.restore()
RenderMinimapEnd ==
  LET gridSize == sceneSize(scene)
      red == [ctx EXCEPT !.fillStyle = "#ea250c", !.strokeStyle = "#ea250c"]
  IN
  /\ pc = "minimap" /\ ~Less(Num(my), gridSize.y)
  /\ pc' = "done" /\ rd' = NoRead /\ cell' = "none"
  /\ IF saved = <<>> THEN ctx' = red /\ saved' = saved
     ELSE ctx' = Head(saved) /\ saved' = Tail(saved)
  /\ UNCHANGED <<scene, start, towards, p1, p2, my, mx>>
  /\ UNCHANGED <<column, strips, atCall>>
  /\ PageUnchanged

Next ==
  \/ CastRayFarClip
  \/ CastRayBreak
  \/ CastRayStep
  \/ RenderSceneColumn
  \/ RenderMinimapBegin
  \/ RenderMinimapCell
  \/ RenderMinimapRowEnd
  \/ RenderMinimapEnd

Spec == Init /\ [][Next]_vars

\* SpecNearLine: Spec with one more ray, aimed at a point within EPSILON of
\* a grid line
InitNearLine ==
  \/ Init
  \/ /\ scene = nearLineScene
     /\ start = nearLineOrigin /\ towards = nearLineTowards
     /\ p1 = start /\ p2 = towards
     /\ pc = "cast" /\ rd = NoRead /\ cell = "none" /\ my = 0 /\ mx = 0
     /\ InitPage /\ InitPlayer /\ nKeys = 0
     /\ column = 0 /\ strips = <<>>
     /\ ctx = backgroundContext /\ saved = <<>> /\ atCall = <<>>

SpecNearLine == InitNearLine /\ [][Next]_vars

----------------------------------------------------------------------------
(* SpecRenderScene: the loop body of renderScene of src/index.ts for one     *)
(* column x and a player looking along a grid axis: castRay, then the strip *)

\* Math.cos and Math.sin at the multiples of pi / 2, Math.tan at pi / 4, the
\* angle in units of pi
QuarterTurns(angle) == ((2 * angle[1]) \div angle[2]) % 4

MathCos(angle) == Num(<<1, 0, -1, 0>>[QuarterTurns(angle) + 1])

MathSin(angle) == Num(<<0, 1, 0, -1>>[QuarterTurns(angle) + 1])

MathTan(angle) ==
  IF angle = <<1, 4>> THEN Num(1) ELSE Over(MathSin(angle), MathCos(angle))

MathAbs(a) == <<Abs(a[1]), a[2]>>

\* Vector2D.fromAngle with both coordinates computed
fromAxisAngle(angle) == Vector2D(MathCos(angle), MathSin(angle))

rotate90(this) == Vector2D(Neg(this.y), this.x)

\* Vector2D.length of a vector along a grid axis, where
\* sqrt(x * x + y * y) = |x| + |y|
lengthOnAxis(this) == Plus(MathAbs(this.x), MathAbs(this.y))

normalize(this) ==
  LET l == lengthOnAxis(this)
  IN  IF l = Num(0) THEN Vector2D(Num(0), Num(0))
      ELSE Vector2D(Over(this.x, l), Over(this.y, l))

lerp(this, that, t) == translate(scaleBy(subtract(that, this), t), this)

\* a length of `this` (the sum of its sides) in place of its projection
dotAsLength(this, that) == Plus(MathAbs(this.x), MathAbs(this.y))

dot(this, that) == Plus(Times(this.x, that.x), Times(this.y, that.y))

\* Player.fovRange: the two ends <<p1, p2>> of the near plane
fovRange(pos, dir) ==
  LET l == Times(MathTan(Times(FOV, Rat(1, 2))), Num(NEAR_CLIPPING_PLANE))
      p == translate(pos, scaleBy(fromAxisAngle(dir), Num(NEAR_CLIPPING_PLANE)))
      side == scaleBy(normalize(rotate90(subtract(p, pos))), l)
  IN  <<subtract(p, side), translate(p, side)>>

strip_width == MathCeilInt(Rat(canvasWidth, SCREEN_WIDTH))

\* the positions and the directions, in units of pi, of the player
ViewPoints == {playerPosition, Vector2D(Rat(5, 2), Rat(11, 2))}

AxisDirections == {Num(0), Rat(1, 2), Num(1), Rat(3, 2)}

\* the values of the loop counter x explored, the middle column among them
Columns == {0, 10, 25, 50, 75, 100, 125, 150, 175, 190}

InitRenderScene ==
  /\ scene \in {builtinScene, raggedScene}
  /\ \E pos \in ViewPoints :
       /\ position = [c |-> pos, u |-> NoAngles]
       /\ start = pos /\ towards = pos /\ p1 = pos /\ p2 = pos
  /\ direction \in AxisDirections
  /\ pc = "column" /\ rd = NoRead /\ cell = "none" /\ my = 0 /\ mx = 0
  /\ InitPage /\ nKeys = 0
  /\ column \in Columns /\ strips = <<>>
  /\ ctx = backgroundContext /\ saved = <<>> /\ atCall = <<>>

\* renderScene: the loop test holds: castRay(scene, player.position,
\* r1.lerp(r2, x / SCREEN_WIDTH)) is entered
RenderSceneCast ==
  LET r == fovRange(position.c, direction) IN
  /\ pc = "column" /\ column < SCREEN_WIDTH
  /\ start' = position.c /\ p1' = position.c
  /\ towards' = lerp(r[1], r[2], Rat(column, SCREEN_WIDTH))
  /\ p2' = towards'
  /\ pc' = "cast" /\ rd' = NoRead /\ cell' = "none"
  /\ UNCHANGED <<scene, my, mx>>
  /\ PageUnchanged /\ UNCHANGED drawVars

\* renderScene: the rest of the loop body
RenderSceneStrip ==
  LET c == hittingCell(position.c, p2)
      color == SceneAt(scene, MathFloorInt(c.y), MathFloorInt(c.x))
      v == subtract(p2, position.c)
      d == fromAxisAngle(direction)
      strip_height == Over(Num(canvasHeight), dot(v, d))
  IN
  /\ pc = "returned"
  /\ IF insideScene(scene, c)
     THEN /\ rd' = Read(c, "renderScene") /\ cell' = color
          /\ IF color # "null"
             THEN /\ ctx' = [ctx EXCEPT !.fillStyle = FillStyleSet(@, color)]
                  /\ strips' = Append(strips,
                       [column |-> column, hit |-> p2, fillStyle |-> ctx'.fillStyle,
                        x |-> Num(column * strip_width),
                        y |-> Times(Minus(Num(canvasHeight), strip_height), Rat(1, 2)),
                        w |-> Num(strip_width),
                        h |-> strip_height])
             ELSE UNCHANGED <<ctx, strips>>
     ELSE rd' = NoRead /\ cell' = "none" /\ UNCHANGED <<ctx, strips>>
  /\ pc' = "strip"
  /\ UNCHANGED <<scene, start, towards, p1, p2, my, mx, column, saved, atCall>>
  /\ PageUnchanged

NextRenderScene ==
  \/ RenderSceneCast
  \/ CastRayFarClip
  \/ CastRayBreak
  \/ CastRayStep
  \/ RenderSceneStrip

SpecRenderScene == InitRenderScene /\ [][NextRenderScene]_vars

----------------------------------------------------------------------------
(* SpecFrame: the page of the compiled listing: the keydown and keyup       *)
(* listeners, the seeding animation-frame callback and `frame`.  Handlers   *)
(* run to completion: no event is delivered while a callback runs.          *)

Codes == Keys \cup {"KeyX"}

\* the intervals between two callbacks of the frame driver, milliseconds
Intervals == {16, 100}

CastUnchanged == UNCHANGED <<castVars, drawVars>>

\* what the page has been sent: the last non-repeat event of each key
Delivered(code, repeat, what) ==
  IF code \in Keys /\ ~repeat THEN [lastEvent EXCEPT ![code] = what] ELSE lastEvent

\* the keydown listener without the test of event.repeat
KeyDownOnRepeat(code, repeat) ==
  /\ fpc = "idle"
  /\ lastEvent' = Delivered(code, repeat, "down")
  /\ movingForward' = IF code = "KeyW" THEN TRUE ELSE movingForward
  /\ movingBackward' = IF code = "KeyS" THEN TRUE ELSE movingBackward
  /\ turningLeft' = IF code = "KeyA" THEN TRUE ELSE turningLeft
  /\ turningRight' = IF code = "KeyD" THEN TRUE ELSE turningRight
  /\ UNCHANGED <<prevTimestamp, rafQueue, now, fpc, timestamp, deltaTime, nFrames>>
  /\ UNCHANGED <<playerVars, nKeys>> /\ CastUnchanged

\* window.addEventListener("keydown", ...)
KeyDown(code, repeat) ==
  /\ fpc = "idle"
  /\ lastEvent' = Delivered(code, repeat, "down")
  /\ movingForward' = IF ~repeat /\ code = "KeyW" THEN TRUE ELSE movingForward
  /\ movingBackward' = IF ~repeat /\ code = "KeyS" THEN TRUE ELSE movingBackward
  /\ turningLeft' = IF ~repeat /\ code = "KeyA" THEN TRUE ELSE turningLeft
  /\ turningRight' = IF ~repeat /\ code = "KeyD" THEN TRUE ELSE turningRight
  /\ UNCHANGED <<prevTimestamp, rafQueue, now, fpc, timestamp, deltaTime, nFrames>>
  /\ UNCHANGED <<playerVars, nKeys>> /\ CastUnchanged

\* window.addEventListener("keyup", ...)
KeyUp(code, repeat) ==
  /\ fpc = "idle"
  /\ lastEvent' = Delivered(code, repeat, "up")
  /\ movingForward' = IF ~repeat /\ code = "KeyW" THEN FALSE ELSE movingForward
  /\ movingBackward' = IF ~repeat /\ code = "KeyS" THEN FALSE ELSE movingBackward
  /\ turningLeft' = IF ~repeat /\ code = "KeyA" THEN FALSE ELSE turningLeft
  /\ turningRight' = IF ~repeat /\ code = "KeyD" THEN FALSE ELSE turningRight
  /\ UNCHANGED <<prevTimestamp, rafQueue, now, fpc, timestamp, deltaTime, nFrames>>
  /\ UNCHANGED <<playerVars, nKeys>> /\ CastUnchanged

\* the seeding callback without prevTimestamp = timestamp
SeedCallbackNoOrigin(interval) ==
  /\ fpc = "idle" /\ rafQueue # <<>> /\ Head(rafQueue) = "seed"
  /\ now' = now + interval
  /\ timestamp' = now'
  /\ rafQueue' = Append(Tail(rafQueue), "frame")
  /\ UNCHANGED <<movingForward, movingBackward, turningLeft, turningRight,
                 prevTimestamp, fpc, deltaTime, lastEvent, nFrames>>
  /\ UNCHANGED <<playerVars, nKeys>> /\ CastUnchanged

\* the callback of the first window.requestAnimationFrame:
\* prevTimestamp = timestamp; window.requestAnimationFrame(frame)
SeedCallback(interval) ==
  /\ fpc = "idle" /\ rafQueue # <<>> /\ Head(rafQueue) = "seed"
  /\ now' = now + interval
  /\ timestamp' = now'
  /\ prevTimestamp' = timestamp'
  /\ rafQueue' = Append(Tail(rafQueue), "frame")
  /\ UNCHANGED <<movingForward, movingBackward, turningLeft, turningRight,
                 fpc, deltaTime, lastEvent, nFrames>>
  /\ UNCHANGED <<playerVars, nKeys>> /\ CastUnchanged

\* the velocity with backward adding instead of subtracting
VelocityBackwardAdds ==
  LET v0 == zero
      v1 == IF movingForward
            THEN add(v0, scale(fromAngle(direction), Num(PLAYER_SPEED))) ELSE v0
  IN  IF movingBackward
      THEN add(v1, scale(fromAngle(direction), Num(PLAYER_SPEED))) ELSE v1

\* the velocity and the angular velocity `frame` builds from the flags
Velocity ==
  LET v0 == zero
      v1 == IF movingForward
            THEN add(v0, scale(fromAngle(direction), Num(PLAYER_SPEED))) ELSE v0
  IN  IF movingBackward
      THEN subtractAlong(v1, scale(fromAngle(direction), Num(PLAYER_SPEED))) ELSE v1

AngularVelocity ==
  LET a1 == IF turningLeft THEN Minus(Num(0), TurnRate) ELSE Num(0)
  IN  IF turningRight THEN Plus(a1, TurnRate) ELSE a1

\* frame scheduling its successor on entry
FrameUpdateSchedulesFirst(interval) ==
  /\ fpc = "idle" /\ rafQueue # <<>> /\ Head(rafQueue) = "frame"
  /\ nFrames < MaxFrames
  /\ rafQueue' = Append(Tail(rafQueue), "frame")
  /\ now' = now + interval
  /\ timestamp' = now'
  /\ deltaTime' = Rat(timestamp' - prevTimestamp, 1000)
  /\ prevTimestamp' = timestamp'
  /\ direction' = Plus(direction, Times(AngularVelocity, deltaTime'))
  /\ position' = add(position, scale(Velocity, deltaTime'))
  /\ fpc' = "render"
  /\ nFrames' = nFrames + 1
  /\ UNCHANGED <<movingForward, movingBackward, turningLeft, turningRight, lastEvent>>
  /\ UNCHANGED nKeys /\ CastUnchanged

\* frame, up to the update of the player
FrameUpdate(interval) ==
  /\ fpc = "idle" /\ rafQueue # <<>> /\ Head(rafQueue) = "frame"
  /\ nFrames < MaxFrames
  /\ rafQueue' = Tail(rafQueue)
  /\ now' = now + interval
  /\ timestamp' = now'
  /\ deltaTime' = Rat(timestamp' - prevTimestamp, 1000)
  /\ prevTimestamp' = timestamp'
  /\ direction' = Plus(direction, Times(AngularVelocity, deltaTime'))
  /\ position' = add(position, scale(Velocity, deltaTime'))
  /\ fpc' = "render"
  /\ nFrames' = nFrames + 1
  /\ UNCHANGED <<movingForward, movingBackward, turningLeft, turningRight, lastEvent>>
  /\ UNCHANGED nKeys /\ CastUnchanged

\* frame: renderGame(ctx, player, scene) draws and changes no state of the page
FrameRender ==
  /\ fpc = "render"
  /\ fpc' = "schedule"
  /\ UNCHANGED <<movingForward, movingBackward, turningLeft, turningRight,
                 prevTimestamp, rafQueue, now, timestamp, deltaTime, lastEvent, nFrames>>
  /\ UNCHANGED <<playerVars, nKeys>> /\ CastUnchanged

\* frame: window.requestAnimationFrame(frame)
FrameSchedule ==
  /\ fpc = "schedule"
  /\ rafQueue' = Append(rafQueue, "frame")
  /\ fpc' = "idle"
  /\ UNCHANGED <<movingForward, movingBackward, turningLeft, turningRight,
                 prevTimestamp, now, timestamp, deltaTime, lastEvent, nFrames>>
  /\ UNCHANGED <<playerVars, nKeys>> /\ CastUnchanged

InitFrame ==
  /\ scene = builtinScene /\ start = playerPosition /\ towards = playerPosition
  /\ p1 = start /\ p2 = towards
  /\ pc = "done" /\ rd = NoRead /\ cell = "none" /\ my = 0 /\ mx = 0
  /\ InitPage /\ InitPlayer /\ InitDraw /\ nKeys = 0

NextFrame ==
  \/ \E code \in Codes, repeat \in BOOLEAN : KeyDown(code, repeat)
  \/ \E code \in Codes, repeat \in BOOLEAN : KeyUp(code, repeat)
  \/ \E interval \in Intervals : SeedCallback(interval)
  \/ \E interval \in Intervals : FrameUpdate(interval)
  \/ FrameRender
  \/ FrameSchedule

SpecFrame == InitFrame /\ [][NextFrame]_vars

----------------------------------------------------------------------------
(* SpecKeydownTs: the keydown listener of src/index.ts, which moves the     *)
(* player itself and renders                                                 *)

KeyDownTs(code, repeat) ==
  /\ nKeys < MaxKeys
  /\ nKeys' = nKeys + 1
  /\ position' =
       IF ~repeat /\ code = "KeyW"
       THEN add(position, scale(fromAngle(direction), PLAYER_STEP_LEN))
       ELSE IF ~repeat /\ code = "KeyS"
       THEN subtractAlong(position, scale(fromAngle(direction), PLAYER_STEP_LEN))
       ELSE position
  /\ direction' =
       IF ~repeat /\ code = "KeyA" THEN Minus(direction, TurnStep)
       ELSE IF ~repeat /\ code = "KeyD" THEN Plus(direction, TurnStep)
       ELSE direction
  /\ UNCHANGED frameVars /\ CastUnchanged

NextKeydownTs == \E code \in Codes, repeat \in BOOLEAN : KeyDownTs(code, repeat)

SpecKeydownTs == InitFrame /\ [][NextKeydownTs]_vars

----------------------------------------------------------------------------
(* Properties of castRay, renderScene and renderMinimap *)

\* the number of rows, and the maximum row length, of a scene
Height(sc) == Len(sc)

RECURSIVE Width(_)
Width(sc) == IF sc = <<>> THEN 0
             ELSE LET w == Width(Tail(sc))
                  IN  IF Len(Head(sc)) > w THEN Len(Head(sc)) ELSE w

Ragged(sc) == \E r \in 1..Len(sc) : Len(sc[r]) < Width(sc)

IsWall(v) == v \in {"red", "green", "blue", "cyan", "purple", "yellow"}

\* C1: every read scene[row][col] made by castRay and by the re-check of
\* renderScene has 0 <= row < height and 0 <= col < width, width being the
\* maximum row length, and castRay breaks only on a cell within these bounds.
C1_ReadsWithinSceneBounds ==
  /\ rd.by \in {"castRay", "renderScene"} =>
       /\ 0 <= rd.row /\ rd.row < Height(scene)
       /\ 0 <= rd.col /\ rd.col < Width(scene)
  /\ (pc = "returned" /\ WithinFarClip) =>
       LET c == hittingCell(p1, p2)
       IN  /\ 0 <= MathFloorInt(c.y) /\ MathFloorInt(c.y) < Height(scene)
           /\ 0 <= MathFloorInt(c.x) /\ MathFloorInt(c.x) < Width(scene)

\* C2: no read scene[row][col], by castRay, renderScene or renderMinimap, has
\* col at or beyond the length of row `row`.
C2_NoReadPastRowEnd ==
  (Ragged(scene) /\ rd.by # "none") =>
    /\ 0 <= rd.row /\ rd.row < Len(scene)
    /\ 0 <= rd.col /\ rd.col < Len(scene[rd.row + 1])

\* the ray of the end-to-end case: the built-in scene, the player's position,
\* a point along the view direction, castRay returned
ViewRayReturned ==
  /\ scene = builtinScene /\ start = playerPosition
  /\ AlongView(start, towards)
  /\ pc = "returned"

\* C3 as stated: the ray along the view direction returns a hit point inside
\* cell (row 2, col 1), within the far-clip distance.
C3_ViewRayHitsRow2Col1 ==
  ViewRayReturned =>
    /\ hittingCell(start, p2) = Vector2D(Num(1), Num(2))
    /\ WithinFarClip

\* C3 amended: the ray along the view direction, toward a point no further
\* than the near clipping plane, returns the point (3.63, 3), which lies inside
\* cell (row 2, col 3), the blue wall, within the far-clip distance.
C3_ViewRayHitsRow2Col3 ==
  ViewRayReturned =>
    /\ p2 = Vector2D(Rat(363, 100), Num(3))
    /\ hittingCell(start, p2) = Vector2D(Num(3), Num(2))
    /\ rd = [row |-> 2, col |-> 3, by |-> "castRay"] /\ cell = "blue"
    /\ WithinFarClip

C3_Witness ==
  ViewRayReturned /\ cell = "blue" /\ towards = translate(start, Vector2D(Rat(-707, 1000), Rat(-707, 1000)))

\* C4 as stated: for p1 # p2 the result of rayStep has exactly one coordinate
\* on an integer and is not p2; for p1 = p2 it is p2.
C4_StepExactlyOneInteger ==
  pc = "cast" =>
    LET p3 == rayStep(p1, p2)
    IN  IF p1 # p2
        THEN p3 # p2 /\ (IsInteger(p3.x) # IsInteger(p3.y))
        ELSE p3 = p2

\* C4 amended: for p1 # p2 the result of rayStep has at least one coordinate
\* on an integer (both at a grid corner), that coordinate differs from p2's,
\* and the result is not p2; for p1 = p2 it is p2.
C4_StepLandsOnGridLine ==
  pc = "cast" =>
    LET p3 == rayStep(p1, p2)
    IN  IF p1 # p2
        THEN /\ p3 # p2
             /\ \/ IsInteger(p3.x) /\ p3.x # p2.x
                \/ IsInteger(p3.y) /\ p3.y # p2.y
        ELSE p3 = p2

\* a step taken from a point that already lies on a grid line
C4_Witness ==
  /\ pc = "cast" /\ p1 # p2 /\ p1 # start
  /\ IsInteger(p1.x) /\ IsInteger(p2.y) /\ ~IsInteger(p2.x)
  /\ p1 = rayStep(start, towards)

\* the cell of point q2 reached from q1 lies within every bound of the scene
\* and holds a Wall
InBoundsWall(sc, q1, q2) ==
  LET c == hittingCell(q1, q2)
  IN  IsWall(SceneAt(sc, MathFloorInt(c.y), MathFloorInt(c.x)))

\* C10 as stated, the reason of the stop: for origin # towards, when castRay
\* has returned, either the cell of the current p2 is an in-bounds Wall or the
\* distance from the origin to p1 has reached the far-clip distance.
C10_StopsOnWallOrFarClip ==
  (pc = "returned" /\ start # towards) =>
    InBoundsWall(scene, p1, p2) \/ ~WithinFarClip

\* C10, the progress of the loop: an iteration that does not stop moves p2
\* strictly further from the origin.
C10_StepMovesAway ==
  [][(pc = "cast" /\ pc' = "cast" /\ start # towards) =>
       Less(sqrDistanceTo(start, p2), sqrDistanceTo(start, p2'))]_vars

\* the cell a ray from q1 through q2 is entering at q2: the cell that holds
\* q2, or the one beyond the grid line q2 lies on
EnteringCell(q1, q2) ==
  LET delta == subtract(q2, q1)
      Beyond(x, dx) == IF MathSign(dx) < 0 THEN Minus(MathCeil(x), Num(1))
                       ELSE MathFloor(x)
  IN  Vector2D(Beyond(q2.x, delta.x), Beyond(q2.y, delta.y))

\* q2 with every coordinate that is no more than EPSILON before the next grid
\* line, in the direction of the ray, moved onto that line
OnLineWithinEpsilon(q1, q2) ==
  LET delta == subtract(q2, q1)
      Moved(x, dx) ==
        IF MathSign(dx) > 0 /\ Leq(Minus(MathCeil(x), x), EPSILON)
        THEN MathCeil(x)
        ELSE IF MathSign(dx) < 0 /\ Less(Minus(x, MathFloor(x)), EPSILON)
        THEN MathFloor(x)
        ELSE x
  IN  Vector2D(Moved(q2.x, delta.x), Moved(q2.y, delta.y))

MathMin(a, b) == IF Less(b, a) THEN b ELSE a

\* the parameters t at which a + t * (b - a) lies strictly between lo and
\* lo + 1, as <<from, to>>; no parameter when from >= to
Span(a, b, lo) ==
  LET d == Minus(b, a) IN
  IF MathSign(d) > 0
  THEN <<Over(Minus(Num(lo), a), d), Over(Minus(Num(lo + 1), a), d)>>
  ELSE IF MathSign(d) < 0
  THEN <<Over(Minus(Num(lo + 1), a), d), Over(Minus(Num(lo), a), d)>>
  ELSE IF Less(Num(lo), a) /\ Less(a, Num(lo + 1))
  THEN <<Num(0), Num(1)>> ELSE <<Num(1), Num(0)>>

\* the segment strictly between q1 and q2 passes through the inside of the
\* cell (row, col)
PassesThrough(q1, q2, row, col) ==
  LET sx == Span(q1.x, q2.x, col)
      sy == Span(q1.y, q2.y, row)
  IN  /\ q1 # q2
      /\ Less(MathMax(Num(0), MathMax(sx[1], sy[1])),
              MathMin(Num(1), MathMin(sx[2], sy[2])))

\* castRay has stopped on a Wall
StoppedOnWall == pc = "returned" /\ rd.by = "castRay" /\ IsWall(cell)

\* no Wall cell of the scene is passed through between towards and the
\* returned point
NoWallSkipped ==
  StoppedOnWall =>
    \A row \in 0..(Height(scene) - 1), col \in 0..(Width(scene) - 1) :
      IsWall(SceneAt(scene, row, col)) => ~PassesThrough(towards, p2, row, col)

\* consecutive tested cells are the same or adjacent, by an edge or a corner,
\* in the direction of the ray
TestedCellsAdjacent ==
  (pc = "cast" /\ pc' = "cast" /\ start # towards) =>
    LET delta == subtract(p2, p1)
        c == hittingCell(p1, p2)
        n == hittingCell(p1', p2')
    IN  /\ Minus(n.x, c.x) \in {Num(0), Num(MathSign(delta.x))}
        /\ Minus(n.y, c.y) \in {Num(0), Num(MathSign(delta.y))}

\* C11 as stated: the cell castRay tests at towards and at each later crossing
\* is the cell the ray is entering there, consecutive tested cells are the same
\* or edge- or corner-adjacent along the ray, and when castRay stops on a Wall
\* no in-bounds Wall cell that the ray passes through between towards and the
\* returned point was left untested.
C11_TestsEnteredCell ==
  /\ [](((pc = "cast" /\ start # towards) =>
           hittingCell(p1, p2) = EnteringCell(p1, p2))
        /\ NoWallSkipped)
  /\ [][TestedCellsAdjacent]_vars

\* C11 amended: the cell castRay tests at towards and at each later crossing
\* is the cell the ray is entering there, a point no more than EPSILON before
\* the next grid line counting as on that line; consecutive tested cells are
\* the same or edge- or corner-adjacent along the ray; and when castRay stops
\* on a Wall no in-bounds Wall cell that the ray passes through between
\* towards and the returned point was left untested.
C11_TestsEnteredCellWithinEpsilon ==
  /\ [](((pc = "cast" /\ start # towards) =>
           hittingCell(p1, p2) = EnteringCell(p1, OnLineWithinEpsilon(p1, p2)))
        /\ NoWallSkipped)
  /\ [][TestedCellsAdjacent]_vars

\* castRay stopped on a Wall of the built-in scene after at least two
\* crossings, none of the Walls of the scene lying before the returned point
C11_Witness ==
  /\ StoppedOnWall /\ scene = builtinScene
  /\ p2 # towards /\ p1 # towards
  /\ hittingCell(p1, p2) = EnteringCell(p1, p2)

\* the coordinate of q along the axis the player looks along
AlongViewAxis(q) == IF QuarterTurns(direction) \in {0, 2} THEN q.x ELSE q.y

\* the strip of the column has been drawn
StripDrawn == pc = "strip" /\ strips # <<>>

\* C12: with the player looking along a grid axis, the strip of a column has
\* height canvasHeight / depth, depth being the distance from the player to
\* the hit point measured along the view axis only, whatever the column: so
\* all columns hitting one wall face perpendicular to the view axis, whose
\* hit points share that coordinate, get the same depth and height; the strip
\* is centred vertically, top = (canvasHeight - height) / 2; the depth is
\* the Euclidean distance to the hit point for the middle column, whose ray
\* runs along the view direction, and less than it for every other column.
C12_PerpendicularDepth ==
  StripDrawn =>
    LET strip == strips[Len(strips)]
        depth == MathAbs(Minus(AlongViewAxis(strip.hit), AlongViewAxis(position.c)))
        sqrEuclidean == sqrDistanceTo(position.c, strip.hit)
    IN  /\ strip.hit = p2 /\ strip.column = column
        /\ depth # Num(0)
        /\ strip.h = Over(Num(canvasHeight), depth)
        /\ Plus(strip.y, Times(strip.h, Rat(1, 2))) = Rat(canvasHeight, 2)
        /\ strip.y = Times(Minus(Num(canvasHeight), strip.h), Rat(1, 2))
        /\ IF 2 * column = SCREEN_WIDTH
           THEN Times(depth, depth) = sqrEuclidean
           ELSE Less(Times(depth, depth), sqrEuclidean)

\* a column off the middle whose ray, after crossing grid lines, hits a wall
\* face of the built-in scene that is perpendicular to the view axis
C12_Witness ==
  /\ StripDrawn /\ scene = builtinScene /\ IsWall(cell)
  /\ 2 * column # SCREEN_WIDTH
  /\ p2 # towards
  /\ IsInteger(AlongViewAxis(p2))
  /\ EnteringCell(position.c, p2) = Vector2D(Num(rd.col), Num(rd.row))

----------------------------------------------------------------------------
(* Properties of the key listeners and of the frame loop *)

Bit(flag) == IF flag THEN 1 ELSE 0

\* a step of the frame callback that integrates the motion
IsFrameUpdate == fpc = "idle" /\ fpc' = "render"

\* C5: one frame update sets direction to
\* direction + (turnRight - turnLeft) * turnRate * dt and position to
\* position + (forward - backward) * speed * dt * unit(direction at the start),
\* flags counting 1 or 0; forward alone with dt = 0.1 moves by 0.2 * unit;
\* forward with backward moves nothing; left with right turns nothing.
C5_FrameIntegratesMotion ==
  [][IsFrameUpdate =>
       LET dt == deltaTime'
           turn == Num(Bit(turningRight) - Bit(turningLeft))
           move == Num((Bit(movingForward) - Bit(movingBackward)) * PLAYER_SPEED)
       IN  /\ direction' = Plus(direction, Times(Times(turn, TurnRate), dt))
           /\ position' = add(position, scale(fromAngle(direction), Times(move, dt)))
           /\ (movingForward /\ ~movingBackward /\ dt = Rat(1, 10)) =>
                position' = add(position, scale(fromAngle(direction), Rat(2, 10)))
           /\ (movingForward /\ movingBackward) => position' = position
           /\ (turningLeft /\ turningRight) => direction' = direction]_vars

\* forward alone, while turning right, for 0.1 s, from the initial player
C5_Witness ==
  /\ fpc = "render" /\ nFrames = 1 /\ deltaTime = Rat(1, 10)
  /\ movingForward /\ ~movingBackward /\ turningRight /\ ~turningLeft
  /\ position = add([c |-> playerPosition, u |-> NoAngles],
                    scale(fromAngle(playerDirection), Rat(1, 5)))
  /\ direction = Plus(playerDirection, Rat(13, 200))

Flag(code) ==
  IF code = "KeyW" THEN movingForward
  ELSE IF code = "KeyS" THEN movingBackward
  ELSE IF code = "KeyA" THEN turningLeft
  ELSE turningRight

\* C6: each intent flag is set exactly when the most recent non-repeat event
\* of its key was a key-down; it is clear initially and after a key-up; repeat
\* events and events of other keys change nothing of it.
C6_FlagsLatchLastEdge ==
  /\ \A code \in Keys : Flag(code) <=> lastEvent[code] = "down"
  /\ \A code \in Keys : lastEvent[code] \in {"none", "up"} => ~Flag(code)

C6_Witness ==
  /\ lastEvent = [k \in Keys |-> IF k \in {"KeyW", "KeyD"} THEN "down"
                                 ELSE IF k = "KeyS" THEN "up" ELSE "none"]
  /\ movingForward /\ turningRight /\ ~movingBackward /\ ~turningLeft

\* C7: the first frame callback only records its timestamp: the player is
\* unchanged whatever flags are set, and the dt of the second callback is the
\* second timestamp minus the first.
C7_FirstFrameSeedsTimeOrigin ==
  [][/\ (rafQueue # <<>> /\ Head(rafQueue) = "seed" /\ now' # now) =>
          /\ position' = position /\ direction' = direction
          /\ prevTimestamp' = now'
     /\ (IsFrameUpdate /\ nFrames = 0) =>
          /\ prevTimestamp = now
          /\ deltaTime' = Rat(now' - now, 1000)]_vars

\* first timestamp 100, second 116, forward held from before the first callback
C7_Witness ==
  /\ nFrames = 1 /\ fpc = "render" /\ now = 116 /\ deltaTime = Rat(16, 1000)
  /\ movingForward /\ ~movingBackward
  /\ position = add([c |-> playerPosition, u |-> NoAngles],
                    scale(fromAngle(playerDirection), Rat(32, 1000)))

\* C8: the player's position and direction change only in the motion
\* integration step of a frame: no key event changes them, and a frame with no
\* flag set leaves them unchanged.
C8_PlayerChangesOnlyInFrameUpdate ==
  [][/\ (position' # position \/ direction' # direction) => IsFrameUpdate
     /\ (IsFrameUpdate /\ ~movingForward /\ ~movingBackward
           /\ ~turningLeft /\ ~turningRight) =>
          (position' = position /\ direction' = direction)]_vars

\* C9: at most one frame callback is pending, none while a frame callback
\* runs; a frame callback schedules exactly one successor as its last step;
\* a key event schedules nothing.
C9_OneFramePending ==
  /\ [](Len(rafQueue) <= 1 /\ (fpc # "idle" => rafQueue = <<>>))
  /\ [][/\ (fpc = "schedule" /\ fpc' # fpc) =>
             (fpc' = "idle" /\ rafQueue' = Append(rafQueue, "frame"))
        /\ (fpc # "idle" /\ fpc' = "idle") => fpc = "schedule"
        /\ (now' = now /\ fpc # "schedule") => rafQueue' = rafQueue]_vars

\* a second frame is pending after key events were delivered between frames
C9_Witness ==
  /\ nFrames = 2 /\ fpc = "idle" /\ rafQueue = <<"frame">>
  /\ lastEvent["KeyW"] = "up" /\ lastEvent["KeyA"] = "down"

====
